---- MODULE Spec2Model ----
(***************************************************************************)
(* TTP (Tera Term Pilot): the master-password store, the encrypted         *)
(* connection store and the application handlers that drive them.          *)
(*                                                                         *)
(* Cryptography is modelled symbolically: derive_key is an injective       *)
(* pairing of (password, salt), a Fernet token names the key, the IV and   *)
(* the plaintext it was made from, and os.urandom / uuid4 draws are fresh  *)
(* (a counter).  File writes are modelled as Python performs them:         *)
(* open(..., "w"/"wb") truncates the file, then the data is written.       *)
(***************************************************************************)
EXTENDS Integers, Sequences, FiniteSets, TLC

\* ---------------------------------------------------------------- bounds
MaxRandom == 8      \* os.urandom / uuid4 draws in one behaviour
MaxProfiles == 2    \* length of the connection list
MaxClock == 1       \* datetime.now() readings 0..MaxClock

\* ------------------------------------------------------- program constants
VerifyLen == 17        \* len(b"TTP_MASTER_VERIFY")
FernetOverhead == 57   \* version 1 + timestamp 8 + IV 16 + HMAC 32
AesBlock == 16
UuidLen == 36          \* len(str(uuid.uuid4()))
IsoLen == 26           \* len(datetime.now().isoformat())
EmptyDocLen == 23      \* json.dumps({"connections": []}, indent=2)
DocOverhead == 25      \* the document around a non-empty list
ConnOverhead == 263    \* keys, quotes, indentation, separators of one record
DefaultPort == 22
MaxAttempts == 3
SaltLen == 16          \* os.urandom(16)

Passwords == {"Secret1!", "WrongPass"}

\* ------------------------------------------------------------- models.py
FieldNames ==
  {"name", "host", "port", "auth_type", "username", "password", "key_path",
   "prompt", "sendln_param", "id", "created_at", "updated_at"}

\* Connection(...): the dataclass, one value per field.
Connection(name, host, port, auth, user, pass, keyPath, prompt, sendln, id, created, updated) ==
  [name |-> name, host |-> host, port |-> port, auth_type |-> auth,
   username |-> user, password |-> pass, key_path |-> keyPath,
   prompt |-> prompt, sendln_param |-> sendln, id |-> id,
   created_at |-> created, updated_at |-> updated]

\* The dataclass defaults of the plain fields (id and the timestamps have
\* default factories; the documents modelled here always carry them).
FieldDefault(f) ==
  CASE f = "port" -> DefaultPort
    [] f = "auth_type" -> "password"
    [] f \in {"id", "created_at", "updated_at"} -> 0
    [] OTHER -> ""

\* Connection.to_dict: asdict(self), a dict keyed by the field names.
to_dict(c) == [f \in FieldNames |-> c[f]]

\* Connection.from_dict: unknown keys are dropped, missing ones defaulted.
from_dict_drops_id(d) ==
  [f \in FieldNames |->
     IF f \in DOMAIN d /\ f # "id" THEN d[f] ELSE FieldDefault(f)]

from_dict(d) ==
  [f \in FieldNames |-> IF f \in DOMAIN d THEN d[f] ELSE FieldDefault(f)]

\* ------------------------------------------------------------- crypto.py
\* generate_salt: os.urandom(16), the n-th draw of the behaviour.  A salt is
\* a byte string: its length and its value.
generate_salt(n) == [len |-> SaltLen, val |-> n]

NoSalt == [len |-> 0, val |-> 0 - 1]

\* derive_key: PBKDF2-HMAC-SHA256 of the password under the salt.  PBKDF2HMAC
\* takes a salt of any length.
derive_key(master_password, salt) == [pw |-> master_password, salt |-> salt]

\* self._key = b"" before authentication: no Fernet key.
NoKey == [pw |-> "", salt |-> NoSalt]

VerifyPlaintext == [kind |-> "verify"]

Digits(n) == IF n < 0 THEN 2 ELSE IF n < 10 THEN 1 ELSE IF n < 100 THEN 2
             ELSE IF n < 1000 THEN 3 ELSE IF n < 10000 THEN 4 ELSE 5

\* UTF-8 bytes the values of one record take in the JSON document.
FieldBytes(c) ==
  Len(c.name) + Len(c.host) + Digits(c.port) + Len(c.auth_type)
  + Len(c.username) + Len(c.password) + Len(c.key_path) + Len(c.prompt)
  + Len(c.sendln_param) + UuidLen + IsoLen + IsoLen

RECURSIVE SumBytes(_)
SumBytes(cs) ==
  IF cs = <<>> THEN 0
  ELSE ConnOverhead + FieldBytes(Head(cs)) + SumBytes(Tail(cs))

\* len(json.dumps(data, ensure_ascii=False, indent=2).encode("utf-8"))
JsonLen(cs) == IF cs = <<>> THEN EmptyDocLen ELSE DocOverhead + SumBytes(cs)

\* Byte length of a plaintext (a document this program did not write
\* carries its length).
PlainLen(pt) ==
  CASE pt.kind = "verify" -> VerifyLen
    [] "bytes" \in DOMAIN pt -> pt.bytes
    [] OTHER -> JsonLen(pt.connections)

\* Fernet token: 0x80 | timestamp | IV | AES-CBC(PKCS7(data)) | HMAC,
\* base64url-encoded.  PKCS7 always adds 1..16 bytes.
TokenBytes(pt) == FernetOverhead + AesBlock * ((PlainLen(pt) \div AesBlock) + 1)

\* Bits of the last base64 data character that carry no data (0, 2 or 4):
\* the bits a lenient decoder ignores.
SlackBits(pt) ==
  CASE TokenBytes(pt) % 3 = 0 -> 0
    [] TokenBytes(pt) % 3 = 1 -> 4
    [] OTHER -> 2

encrypt_fixed_iv(data, key, iv) == [key |-> key, iv |-> 0, pt |-> data]

\* encrypt: Fernet(key).encrypt(data) under a fresh IV.
encrypt(data, key, iv) == [key |-> key, iv |-> iv, pt |-> data]

\* decrypt: Fernet(key).decrypt(data).  `flip` is the tampering the stored
\* bytes suffered: "none", "sig" (a flipped bit that changes the decoded
\* token or makes it undecodable), "slack" (a flipped bit the base64
\* decoder ignores).
decrypt_no_mac(tok, flip, key) ==
  IF key # NoKey THEN [ok |-> TRUE, pt |-> tok.pt]
  ELSE [ok |-> FALSE, pt |-> VerifyPlaintext]

decrypt(tok, flip, key) ==
  IF key # NoKey /\ tok.key = key /\ flip # "sig"
  THEN [ok |-> TRUE, pt |-> tok.pt]
  ELSE [ok |-> FALSE, pt |-> VerifyPlaintext]

create_verify_token(key, iv) == encrypt(VerifyPlaintext, key, iv)

verify_always_true(token, flip, key) == TRUE

verify_master_password(token, flip, key) ==
  LET d == decrypt(token, flip, key) IN d.ok /\ d.pt = VerifyPlaintext

\* ------------------------------------------------ dialogs.py: ConnectionDialog
\* What an entry widget holds: the text proper and whether whitespace
\* surrounds it.  The port entry's text is a sequence of characters.
Entry(text, padded) == [text |-> text, padded |-> padded]

\* str.strip()
strip(e) == e.text

DigitChars == {"0", "1", "2", "3", "4", "5", "6", "7", "8", "9"}

DigitValue(c) ==
  CASE c = "0" -> 0 [] c = "1" -> 1 [] c = "2" -> 2 [] c = "3" -> 3
    [] c = "4" -> 4 [] c = "5" -> 5 [] c = "6" -> 6 [] c = "7" -> 7
    [] c = "8" -> 8 [] OTHER -> 9

\* The digits of a numeral, after its sign if it has one.
Unsigned(t) == IF t # <<>> /\ Head(t) \in {"+", "-"} THEN Tail(t) ELSE t

\* int(s) raises ValueError unless s is an optional sign and decimal digits.
IsInt(t) == Unsigned(t) # <<>> /\ \A i \in 1..Len(Unsigned(t)) : Unsigned(t)[i] \in DigitChars

RECURSIVE Decimal(_)
Decimal(d) ==
  IF d = <<>> THEN 0
  ELSE 10 * Decimal(SubSeq(d, 1, Len(d) - 1)) + DigitValue(d[Len(d)])

\* int(s)
int(t) == IF Head(t) = "-" THEN 0 - Decimal(Unsigned(t)) ELSE Decimal(Unsigned(t))

NoConn == Connection("", "", 0, "", "", "", "", "", "", 0 - 1, 0, 0)

on_save_new_id_on_edit(form, editing, conn, now, new_id) ==
  LET name == strip(form.name)
      host == strip(form.host)
      port_str == strip(form.port)
  IN IF name = "" \/ host = "" \/ ~IsInt(port_str) THEN [ok |-> FALSE, result |-> NoConn]
     ELSE IF form.auth_type = "publickey" /\ form.key_path = ""
     THEN [ok |-> FALSE, result |-> NoConn]
     ELSE [ok |-> TRUE,
           result |-> Connection(name, host, int(port_str), form.auth_type,
                                 strip(form.username), form.password,
                                 form.key_path, strip(form.prompt),
                                 strip(form.sendln_param),
                                 new_id, now, now)]

\* ConnectionDialog._on_save: a warning (the dialog stays open, no result)
\* or the Connection it builds from the form.  `conn` is the record being
\* edited when `editing`; now and new_id are the readings of datetime.now()
\* and uuid4().
ConnectionDialog_on_save(form, editing, conn, now, new_id) ==
  LET name == strip(form.name)
      host == strip(form.host)
      port_str == strip(form.port)
  IN IF name = "" THEN [ok |-> FALSE, result |-> NoConn]
     ELSE IF host = "" THEN [ok |-> FALSE, result |-> NoConn]
     ELSE IF ~IsInt(port_str) THEN [ok |-> FALSE, result |-> NoConn]
     ELSE IF form.auth_type = "publickey" /\ form.key_path = ""
     THEN [ok |-> FALSE, result |-> NoConn]
     ELSE [ok |-> TRUE,
           result |-> Connection(name, host, int(port_str), form.auth_type,
                                 strip(form.username), form.password,
                                 form.key_path, strip(form.prompt),
                                 strip(form.sendln_param),
                                 IF editing THEN conn.id ELSE new_id,
                                 IF editing THEN conn.created_at ELSE now, now)]

\* ------------------------------------------------------------ files on disk
\* A file is absent, zero-length, a proper non-empty prefix of `data`
\* ("partial"), or holds `data` whole.
AbsentFile == [st |-> "absent"]
EmptyFile == [st |-> "empty"]
PartialFile(x) == [st |-> "partial", data |-> x]
FullFile(x) == [st |-> "full", data |-> x, flip |-> "none"]

NoTok == encrypt(VerifyPlaintext, NoKey, 0 - 1)

\* bytes.hex of the salt: a string of hex digits.
hex(salt) == [hex |-> salt]

\* What one flipped bit makes of a hex string: another digit ("digit": the
\* string names another salt), the same digit in the other case ("case",
\* "a" -> "A": the same salt), or a character that is no hex digit ("nonhex").
FlipHex(h, how) ==
  CASE how = "digit" -> hex([len |-> h.hex.len, val |-> h.hex.val, flipped |-> TRUE])
    [] how = "case" -> [hex |-> h.hex, upper |-> TRUE]
    [] OTHER -> [hex |-> h.hex, nonhex |-> TRUE]

\* bytes.fromhex: raises ValueError on a character that is no hex digit,
\* reads digits of either case.
IsHex(h) == "nonhex" \notin DOMAIN h
fromhex(h) == h.hex

NoRec == [salt |-> hex(NoSalt), verify_token |-> NoTok]

\* ------------------------------------------------- storage.py: MasterStore
exists_unchecked(m) == TRUE

\* MasterStore.exists: self._path.is_file()
MasterStore_exists(m) == m.st # "absent"

\* The record MasterStore.setup writes: json.dumps({"salt", "verify_token"}).
MasterRecord(salt, token) == [salt |-> hex(salt), verify_token |-> token]

unlock_removes_record_on_failure(m, master_password) ==
  IF m.st # "full" \/ m.flip = "json" THEN [out |-> "raise", key |-> NoKey, file |-> m]
  ELSE IF ~IsHex(m.data.salt) THEN [out |-> "raise", key |-> NoKey, file |-> m]
  ELSE LET k == derive_key(master_password, fromhex(m.data.salt))
       IN IF verify_master_password(m.data.verify_token, m.flip, k)
          THEN [out |-> "key", key |-> k, file |-> m]
          ELSE [out |-> "None", key |-> NoKey, file |-> AbsentFile]

unlock_returns_key_of_empty_salt(m, master_password) ==
  IF m.st # "full" \/ m.flip = "json" THEN [out |-> "raise", key |-> NoKey, file |-> m]
  ELSE IF ~IsHex(m.data.salt) THEN [out |-> "raise", key |-> NoKey, file |-> m]
  ELSE LET k == derive_key(master_password, fromhex(m.data.salt))
       IN IF verify_master_password(m.data.verify_token, m.flip, k)
          THEN [out |-> "key", key |-> derive_key(master_password, NoSalt), file |-> m]
          ELSE [out |-> "None", key |-> NoKey, file |-> m]

\* MasterStore.unlock as a function of the file: its outcome, the key it
\* returns and the file as it leaves it.  read_text raises when the file is
\* absent, json.loads when it is empty, cut short or no longer a JSON
\* document (flip "json"), bytes.fromhex when the salt is no hex string.
MasterStore_unlock(m, master_password) ==
  IF m.st # "full" \/ m.flip = "json" THEN [out |-> "raise", key |-> NoKey, file |-> m]
  ELSE IF ~IsHex(m.data.salt) THEN [out |-> "raise", key |-> NoKey, file |-> m]
  ELSE LET salt == fromhex(m.data.salt)
           token == m.data.verify_token
           k == derive_key(master_password, salt)
       IN IF verify_master_password(token, m.flip, k)
          THEN [out |-> "key", key |-> k, file |-> m]
          ELSE [out |-> "None", key |-> NoKey, file |-> m]

setup_keeps_prior_record(m, master_password, n, iv) ==
  LET salt == generate_salt(n)
      k == derive_key(master_password, salt)
      token == create_verify_token(k, iv)
  IN [key |-> k,
      file |-> IF m.st = "absent" THEN FullFile(MasterRecord(salt, token)) ELSE m]

\* MasterStore.setup when its write completes: the key it returns and the
\* file it leaves, given the draws n (salt) and iv (token) it makes.
MasterStore_setup(m, master_password, n, iv) ==
  LET salt == generate_salt(n)
      k == derive_key(master_password, salt)
      token == create_verify_token(k, iv)
  IN [key |-> k, file |-> FullFile(MasterRecord(salt, token))]

\* MasterStore.change_password when its write completes: unlock under the
\* old password, then setup under the new one unless unlock returned None.
MasterStore_change_password(m, old_password, new_password, n, iv) ==
  LET old_key == MasterStore_unlock(m, old_password)
  IN IF old_key.out = "raise" THEN [out |-> "raise", key |-> NoKey, file |-> old_key.file]
     ELSE IF old_key.out = "None" THEN [out |-> "None", key |-> NoKey, file |-> old_key.file]
     ELSE LET new_key == MasterStore_setup(old_key.file, new_password, n, iv)
          IN [out |-> "key", key |-> new_key.key, file |-> new_key.file]

\* --------------------------------------------- storage.py: ConnectionStore
\* json.loads(...) then data.get("connections", []) and from_dict on each.
ParseDoc(pt) ==
  CASE pt.kind = "json" ->
         [ok |-> TRUE,
          list |-> [i \in 1..Len(pt.connections) |-> from_dict(pt.connections[i])]]
    [] pt.kind = "noconn" -> [ok |-> TRUE, list |-> <<>>]
    [] OTHER -> [ok |-> FALSE, list |-> <<>>]

\* The body of ConnectionStore.load's try block: the exception it ends
\* with ("none" when it returns) and the list it builds.
LoadBody(b, key) ==
  IF b.st = "partial" THEN [exc |-> "InvalidToken", list |-> <<>>]
  ELSE LET d == decrypt(b.data, b.flip, key)
       IN IF ~d.ok THEN [exc |-> "InvalidToken", list |-> <<>>]
          ELSE LET p == ParseDoc(d.pt)
               IN IF p.ok THEN [exc |-> "none", list |-> p.list]
                  ELSE [exc |-> "ParseError", list |-> <<>>]

load_catches_InvalidToken_only(b, key) ==
  IF b.st \in {"absent", "empty"} THEN [raised |-> FALSE, list |-> <<>>, file |-> b]
  ELSE LET r == LoadBody(b, key)
       IN IF r.exc = "none" THEN [raised |-> FALSE, list |-> r.list, file |-> b]
          ELSE [raised |-> r.exc # "InvalidToken", list |-> <<>>, file |-> b]

\* ConnectionStore.load as a function of the file and the key: whether it
\* raises, the list it returns and the file as it leaves it.
\* `except Exception: return []`.
ConnectionStore_load(b, key) ==
  IF b.st = "absent" THEN [raised |-> FALSE, list |-> <<>>, file |-> b]
  ELSE IF b.st = "empty" THEN [raised |-> FALSE, list |-> <<>>, file |-> b]
  ELSE LET r == LoadBody(b, key)
       IN IF r.exc = "none" THEN [raised |-> FALSE, list |-> r.list, file |-> b]
          ELSE [raised |-> FALSE, list |-> <<>>, file |-> b]

\* The bytes ConnectionStore.save writes.
SaveBytes(connections, key, iv) ==
  encrypt([kind |-> "json",
           connections |-> [i \in 1..Len(connections) |-> to_dict(connections[i])]],
          key, iv)

re_encrypt_loads_with_new_key(b, old_key, new_key) ==
  ConnectionStore_load(b, new_key).list

\* ConnectionStore.re_encrypt: the list it hands to save(..., new_key).
re_encrypt_list(b, old_key, new_key) == ConnectionStore_load(b, old_key).list

\* ------------------------------------------------------------------ state
VARIABLES
  master,       \* ttp_data/master.json
  blob,         \* ttp_data/connections.enc
  pc,           \* where the application is
  key,          \* TTPApp._key
  connections,  \* TTPApp._connections
  attempt,      \* the loop variable of _authenticate
  rnd,          \* os.urandom / uuid4 draws so far (each draw is fresh)
  clock,        \* the last datetime.now() reading
  op,           \* locals of the handler in progress
  last,         \* the outcome of the store call made by the last step
  hist,         \* history: what the last completed setup / save wrote
  sort_reverse  \* TTPApp._sort_reverse

vars ==
  <<master, blob, pc, key, connections, attempt, rnd, clock, op, last, hist,
    sort_reverse>>

\* What the connection store held when a rotation began.
NoPre == [held |-> FALSE, list |-> <<>>]

NoOp ==
  [caller |-> "none", ret |-> "none", old_key |-> NoKey, new_key |-> NoKey,
   rec |-> NoRec, enc |-> NoTok, pre |-> NoPre, prev |-> AbsentFile]

NoCall == [op |-> "none"]

\* A store call of the last step ended with OSError: the read or the write
\* under it failed.
StorageError(where) == [op |-> "OSError", in |-> where]

NoHist ==
  [setupPw |-> "", setupKey |-> NoKey, rec |-> NoRec, savedKey |-> NoKey, saved |-> <<>>,
   pendKey |-> NoKey, pend |-> <<>>, intact |-> FALSE, flipped |-> FALSE]

\* Values the connection dialog can return for a new record.
DialogNames == {"web", "db-server-01"}

Init ==
  /\ master = AbsentFile
  /\ blob = AbsentFile
  /\ pc = "off"
  /\ key = NoKey
  /\ connections = <<>>
  /\ attempt = 0
  /\ rnd = 0
  /\ clock = 0
  /\ op = NoOp
  /\ last = NoCall
  /\ hist = NoHist
  /\ sort_reverse = FALSE

\* ------------------------------------------------------ app.py: TTPApp.run
\* main(): TTPApp() then run(), which starts with _authenticate.
Start ==
  /\ pc = "off"
  /\ pc' = "auth"
  /\ attempt' = 0
  /\ key' = NoKey
  /\ connections' = <<>>
  /\ op' = NoOp
  /\ last' = NoCall
  /\ UNCHANGED <<master, blob, rnd, clock, hist, sort_reverse>>

\* The process ends where it stands: killed, power loss, or an exception
\* that leaves run().  Memory is lost, the files stay as they are.
Halt ==
  /\ pc' = "off"
  /\ key' = NoKey
  /\ connections' = <<>>
  /\ attempt' = 0
  /\ op' = NoOp

Crash ==
  /\ pc \notin {"off", "vault"}
  /\ Halt
  /\ last' = NoCall
  /\ UNCHANGED <<master, blob, rnd, clock, hist, sort_reverse>>

\* ------------------------------------------- app.py: TTPApp._authenticate
\* First start: SetMasterPasswordDialog cancelled.
AuthFirstCancel ==
  /\ pc = "auth"
  /\ ~MasterStore_exists(master)
  /\ Halt
  /\ last' = NoCall
  /\ UNCHANGED <<master, blob, rnd, clock, hist, sort_reverse>>

\* MasterStore.setup up to the write: salt, key and verify token.
SetupBegin(caller, pw, old_key, pre) ==
  /\ rnd + 2 <= MaxRandom
  /\ LET salt == generate_salt(rnd)
         k == derive_key(pw, salt)
         token == create_verify_token(k, rnd + 1)
     IN op' = [op EXCEPT !.caller = caller, !.old_key = old_key, !.new_key = k,
                         !.rec = MasterRecord(salt, token), !.pre = pre]
  /\ rnd' = rnd + 2
  /\ pc' = "setup_open"

\* First start: the dialog returns a password, setup(dlg.result) begins.
AuthFirstSetup ==
  /\ pc = "auth"
  /\ ~MasterStore_exists(master)
  /\ \E pw \in Passwords : SetupBegin("auth", pw, NoKey, NoPre)
  /\ last' = NoCall
  /\ UNCHANGED <<master, blob, key, connections, attempt, clock, hist, sort_reverse>>

\* EnterMasterPasswordDialog cancelled.
AuthCancel ==
  /\ pc = "auth"
  /\ MasterStore_exists(master)
  /\ attempt < MaxAttempts
  /\ Halt
  /\ last' = NoCall
  /\ UNCHANGED <<master, blob, rnd, clock, hist, sort_reverse>>

UnlockCall(pw, r) ==
  [op |-> "unlock", pw |-> pw, out |-> r.out, key |-> r.key,
   setupPw |-> hist.setupPw]

auth_unlock_admits_after_failures ==
  /\ pc = "auth"
  /\ MasterStore_exists(master)
  /\ attempt < MaxAttempts
  /\ \E pw \in Passwords :
       LET r == MasterStore_unlock(master, pw)
       IN /\ last' = UnlockCall(pw, r)
          /\ master' = r.file
          /\ CASE r.out = "key" ->
                    /\ key' = r.key
                    /\ pc' = "load"
                    /\ UNCHANGED <<attempt, connections, op>>
               [] r.out = "None" ->
                    IF attempt + 1 < MaxAttempts
                    THEN /\ attempt' = attempt + 1
                         /\ UNCHANGED <<pc, key, connections, op>>
                    ELSE /\ pc' = "load"
                         /\ UNCHANGED <<attempt, key, connections, op>>
               [] OTHER -> Halt
  /\ UNCHANGED <<blob, rnd, clock, hist, sort_reverse>>

\* One pass of the loop: unlock(dlg.result).
AuthUnlock ==
  /\ pc = "auth"
  /\ MasterStore_exists(master)
  /\ attempt < MaxAttempts
  /\ \E pw \in Passwords :
       LET r == MasterStore_unlock(master, pw)
       IN /\ last' = UnlockCall(pw, r)
          /\ master' = r.file
          /\ CASE r.out = "key" ->
                    /\ key' = r.key
                    /\ pc' = "load"
                    /\ UNCHANGED <<attempt, connections, op>>
               [] r.out = "None" ->
                    IF attempt + 1 < MaxAttempts
                    THEN /\ attempt' = attempt + 1
                         /\ UNCHANGED <<pc, key, connections, op>>
                    ELSE Halt
               [] OTHER -> Halt
  /\ UNCHANGED <<blob, rnd, clock, hist, sort_reverse>>

\* unlock's read_text raises OSError (the file cannot be read): the
\* exception leaves _authenticate and run().
AuthUnlockFail ==
  /\ pc = "auth"
  /\ MasterStore_exists(master)
  /\ attempt < MaxAttempts
  /\ Halt
  /\ last' = StorageError("unlock")
  /\ UNCHANGED <<master, blob, rnd, clock, hist, sort_reverse>>

\* ------------------------------------- storage.py: MasterStore.setup, write
\* self._path.write_text(...): open(path, "w") truncates the file ...
SetupOpen ==
  /\ pc = "setup_open"
  /\ master' = EmptyFile
  /\ pc' = "setup_write"
  /\ hist' = [hist EXCEPT !.setupPw = ""]
  /\ last' = NoCall
  /\ UNCHANGED <<blob, key, connections, attempt, rnd, clock, op, sort_reverse>>

\* ... the text reaches the disk in part ...
SetupWritePartial ==
  /\ pc = "setup_write"
  /\ master = EmptyFile
  /\ master' = PartialFile(op.rec)
  /\ last' = NoCall
  /\ UNCHANGED <<blob, pc, key, connections, attempt, rnd, clock, op, hist, sort_reverse>>

\* ... and whole; setup returns the key to its caller.
SetupWriteDone ==
  /\ pc = "setup_write"
  /\ master' = FullFile(op.rec)
  /\ hist' = [hist EXCEPT !.setupPw = op.new_key.pw, !.setupKey = op.new_key,
                          !.rec = op.rec]
  /\ IF op.caller = "auth"
     THEN /\ key' = op.new_key
          /\ pc' = "load"
          /\ op' = NoOp
     ELSE /\ pc' = "reenc"
          /\ UNCHANGED <<key, op>>
  /\ last' = NoCall
  /\ UNCHANGED <<blob, connections, attempt, rnd, clock, sort_reverse>>

\* write_text raises OSError (the open fails, or the write after it): in
\* _authenticate the exception leaves run(); in a Tk callback it is reported
\* and the main loop goes on.
SetupFail ==
  /\ pc \in {"setup_open", "setup_write"}
  /\ IF op.caller = "auth"
     THEN Halt
     ELSE /\ pc' = "main"
          /\ op' = NoOp
          /\ UNCHANGED <<key, connections, attempt>>
  /\ last' = StorageError("setup")
  /\ UNCHANGED <<master, blob, rnd, clock, hist, sort_reverse>>

\* ------------------------------------------------- app.py: TTPApp.run, load
AppLoad ==
  /\ pc = "load"
  /\ LET r == ConnectionStore_load(blob, key)
     IN /\ connections' = r.list
        /\ blob' = r.file
  /\ pc' = "main"
  /\ last' = NoCall
  /\ UNCHANGED <<master, key, attempt, rnd, clock, op, hist, sort_reverse>>

\* load's read_bytes raises OSError: the exception leaves run().
AppLoadFail ==
  /\ pc = "load"
  /\ blob.st # "absent"
  /\ Halt
  /\ last' = StorageError("load")
  /\ UNCHANGED <<master, blob, rnd, clock, hist, sort_reverse>>

\* ------------------------------------ storage.py: ConnectionStore.save, write
\* save(connections, key): serialise, encrypt under a fresh IV, then write.
SaveBegin(list, k, ret) ==
  /\ rnd + 1 <= MaxRandom
  /\ op' = [op EXCEPT !.ret = ret, !.enc = SaveBytes(list, k, rnd), !.prev = blob]
  /\ hist' = [hist EXCEPT !.pendKey = k, !.pend = list]
  /\ rnd' = rnd + 1
  /\ pc' = "save_open"

\* self._path.write_bytes(encrypted): open(path, "wb") truncates the file ...
SaveOpen ==
  /\ pc = "save_open"
  /\ blob' = EmptyFile
  /\ pc' = "save_write"
  /\ hist' = [hist EXCEPT !.intact = FALSE, !.flipped = FALSE]
  /\ last' = NoCall
  /\ UNCHANGED <<master, key, connections, attempt, rnd, clock, op, sort_reverse>>

\* ... the bytes reach the disk in part ...
SaveWritePartial ==
  /\ pc = "save_write"
  /\ blob = EmptyFile
  /\ blob' = PartialFile(op.enc)
  /\ last' = NoCall
  /\ UNCHANGED <<master, pc, key, connections, attempt, rnd, clock, op, hist, sort_reverse>>

\* ... and whole; save returns.
SaveWriteDone ==
  /\ pc = "save_write"
  /\ blob' = FullFile(op.enc)
  /\ hist' = [hist EXCEPT !.intact = TRUE, !.savedKey = hist.pendKey,
                          !.saved = hist.pend, !.flipped = FALSE]
  /\ pc' = op.ret
  /\ op' = IF op.ret = "main" THEN NoOp ELSE op
  /\ last' = NoCall
  /\ UNCHANGED <<master, key, connections, attempt, rnd, clock, sort_reverse>>

save_error_swallowed ==
  /\ pc \in {"save_open", "save_write"}
  /\ pc' = op.ret
  /\ op' = IF op.ret = "main" THEN NoOp ELSE op
  /\ last' = NoCall
  /\ UNCHANGED <<master, blob, key, connections, attempt, rnd, clock, hist, sort_reverse>>

\* write_bytes raises OSError: save, and re_encrypt when it is the caller,
\* pass it on and the Tk callback ends there.
SaveFail ==
  /\ pc \in {"save_open", "save_write"}
  /\ pc' = "main"
  /\ op' = NoOp
  /\ last' = StorageError(IF op.ret = "chpw_adopt" THEN "re_encrypt" ELSE "save")
  /\ UNCHANGED <<master, blob, key, connections, attempt, rnd, clock, hist, sort_reverse>>

\* --------------------------------------------------- app.py: the handlers
RemoveAt(seq, i) == [j \in 1..(Len(seq) - 1) |-> IF j < i THEN seq[j] ELSE seq[j + 1]]

\* _on_add: the dialog returns a new Connection (fresh id, both timestamps
\* "now"); it is appended and the list saved.
OnAdd ==
  /\ pc = "main"
  /\ Len(connections) < MaxProfiles
  /\ rnd + 2 <= MaxRandom
  /\ \E name \in DialogNames, now \in clock..MaxClock :
       LET conn == Connection(name, "h", DefaultPort, "password", "u", "", "",
                              "", "", rnd, now, now)
           list == Append(connections, conn)
       IN /\ connections' = list
          /\ clock' = now
          /\ op' = [op EXCEPT !.caller = "handler", !.ret = "main",
                              !.enc = SaveBytes(list, key, rnd + 1),
                              !.prev = blob]
          /\ hist' = [hist EXCEPT !.pendKey = key, !.pend = list]
  /\ rnd' = rnd + 2
  /\ pc' = "save_open"
  /\ last' = NoCall
  /\ UNCHANGED <<master, blob, key, attempt, sort_reverse>>

\* _on_delete: the selected record is popped and the list saved.
OnDelete ==
  /\ pc = "main"
  /\ \E idx \in 1..Len(connections) :
       /\ connections' = RemoveAt(connections, idx)
       /\ SaveBegin(connections', key, "main")
  /\ last' = NoCall
  /\ UNCHANGED <<master, blob, key, attempt, clock, sort_reverse>>

on_change_password_ignores_None ==
  /\ pc = "main"
  /\ \E old \in Passwords, new \in Passwords :
       LET r == MasterStore_unlock(master, old)
       IN /\ last' = UnlockCall(old, r)
          /\ master' = r.file
          /\ IF r.out # "raise"
             THEN SetupBegin("chpw", new, r.key,
                             [held |-> hist.intact /\ hist.savedKey = r.key,
                              list |-> hist.saved])
             ELSE UNCHANGED <<pc, op, rnd>>
  /\ UNCHANGED <<blob, key, connections, attempt, clock, hist, sort_reverse>>

\* _on_change_password up to the call of setup: unlock(dlg.old_password);
\* None or an exception ends the handler.
OnChangePassword ==
  /\ pc = "main"
  /\ \E old \in Passwords, new \in Passwords :
       LET r == MasterStore_unlock(master, old)
       IN /\ last' = UnlockCall(old, r)
          /\ master' = r.file
          /\ IF r.out = "key"
             THEN SetupBegin("chpw", new, r.key,
                             [held |-> hist.intact /\ hist.savedKey = r.key,
                              list |-> hist.saved])
             ELSE UNCHANGED <<pc, op, rnd>>
  /\ UNCHANGED <<blob, key, connections, attempt, clock, hist, sort_reverse>>

\* _on_change_password: unlock's read_text raises OSError; the handler ends.
ChangePasswordUnlockFail ==
  /\ pc = "main"
  /\ last' = StorageError("unlock")
  /\ UNCHANGED <<master, blob, pc, key, connections, attempt, rnd, clock, op, hist, sort_reverse>>

\* re_encrypt: load's read_bytes raises OSError (it is outside load's try);
\* re_encrypt passes it on and the handler ends before self._key = new_key.
ReEncryptLoadFail ==
  /\ pc = "reenc"
  /\ blob.st # "absent"
  /\ pc' = "main"
  /\ op' = NoOp
  /\ last' = StorageError("re_encrypt")
  /\ UNCHANGED <<master, blob, key, connections, attempt, rnd, clock, hist, sort_reverse>>

\* ConnectionStore.re_encrypt(old_key, new_key): load under the old key,
\* save under the new one.
ReEncrypt ==
  /\ pc = "reenc"
  /\ SaveBegin(re_encrypt_list(blob, op.old_key, op.new_key), op.new_key, "chpw_adopt")
  /\ last' = NoCall
  /\ UNCHANGED <<master, blob, key, connections, attempt, clock, sort_reverse>>

\* self._key = new_key
ChpwAdopt ==
  /\ pc = "chpw_adopt"
  /\ key' = op.new_key
  /\ pc' = "main"
  /\ op' = NoOp
  /\ last' = NoCall
  /\ UNCHANGED <<master, blob, connections, attempt, rnd, clock, hist, sort_reverse>>

\* File > Exit.
Quit ==
  /\ pc = "main"
  /\ Halt
  /\ last' = NoCall
  /\ UNCHANGED <<master, blob, rnd, clock, hist, sort_reverse>>

Next ==
  \/ Start \/ Crash
  \/ AuthFirstCancel \/ AuthFirstSetup \/ AuthCancel \/ AuthUnlock
  \/ AuthUnlockFail
  \/ SetupOpen \/ SetupWritePartial \/ SetupWriteDone \/ SetupFail
  \/ AppLoad \/ AppLoadFail
  \/ SaveOpen \/ SaveWritePartial \/ SaveWriteDone \/ SaveFail
  \/ OnAdd \/ OnDelete \/ OnChangePassword \/ ChangePasswordUnlockFail
  \/ ReEncrypt \/ ReEncryptLoadFail \/ ChpwAdopt
  \/ Quit

Spec == Init /\ [][Next]_vars

\* --------------------------------------------- the connection store alone
\* ConnectionStore.save / load over arbitrary lists, keys and file contents,
\* and single-bit flips of the stored bytes.
MaxVaultSaves == 2

VaultKeys == {derive_key(pw, generate_salt(0)) : pw \in Passwords}

VaultProfiles ==
  {Connection(name, "h", DefaultPort, "password", "u", "", "", "", "", id, 0, id - 1) :
     name \in DialogNames, id \in 1..2}

VaultLists == UNION {[1..n -> VaultProfiles] : n \in 0..MaxProfiles}

\* A record written by another version: an unknown key, fields missing.
LegacyDict ==
  [name |-> "web", host |-> "h", username |-> "u", id |-> 1, created_at |-> 0,
   updated_at |-> 0, legacy |-> "x"]

\* Plaintexts this program never writes to the connection store.
ForeignPlain ==
  {VerifyPlaintext,
   [kind |-> "notjson", bytes |-> 5],
   [kind |-> "jsonlist", bytes |-> 2],
   [kind |-> "noconn", bytes |-> 2],
   [kind |-> "badconn", bytes |-> 18],
   [kind |-> "json", bytes |-> 213, connections |-> <<LegacyDict>>]}

VaultBlobs ==
  {AbsentFile, EmptyFile}
  \cup {PartialFile(encrypt(pt, k, 0)) : pt \in {VerifyPlaintext}, k \in VaultKeys}
  \cup {FullFile(encrypt(pt, k, 0)) : pt \in ForeignPlain, k \in VaultKeys}

InitVault ==
  /\ master = AbsentFile
  /\ blob \in VaultBlobs
  /\ pc = "vault"
  /\ key = NoKey
  /\ connections = <<>>
  /\ attempt = 0
  /\ rnd = 1
  /\ clock = 0
  /\ op = NoOp
  /\ last = NoCall
  /\ hist = NoHist
  /\ sort_reverse = FALSE

\* save(L, K), whole.
VaultSave ==
  /\ pc = "vault"
  /\ rnd <= MaxVaultSaves
  /\ \E L \in VaultLists, k \in VaultKeys :
       /\ blob' = FullFile(SaveBytes(L, k, rnd))
       /\ hist' = [hist EXCEPT !.intact = TRUE, !.savedKey = k, !.saved = L,
                               !.flipped = FALSE]
       /\ last' = [op |-> "save", key |-> k, list |-> L]
  /\ rnd' = rnd + 1
  /\ UNCHANGED <<master, pc, key, connections, attempt, clock, op, sort_reverse>>

\* load(K)
VaultLoad ==
  /\ pc = "vault"
  /\ \E k \in VaultKeys :
       LET r == ConnectionStore_load(blob, k)
       IN /\ blob' = r.file
          /\ last' = [op |-> "load", key |-> k, raised |-> r.raised, list |-> r.list]
  /\ UNCHANGED <<master, pc, key, connections, attempt, rnd, clock, op, hist, sort_reverse>>

\* One bit of the stored token is flipped.  The flip either changes the
\* decoded token or makes it undecodable ("sig": a character leaves the
\* alphabet and is dropped, becomes "=", or decodes to other data), or it
\* falls on a bit of the last base64 character that carries no data
\* ("slack", e.g. "A" -> "C" before "=="), which base64.urlsafe_b64decode
\* ignores.
VaultFlip ==
  /\ pc = "vault"
  /\ blob.st = "full"
  /\ blob.flip = "none"
  /\ \E pos \in {"sig", "slack"} :
       /\ pos = "slack" => SlackBits(blob.data.pt) > 0
       /\ blob' = [blob EXCEPT !.flip = pos]
  /\ hist' = [hist EXCEPT !.flipped = hist.intact, !.intact = FALSE]
  /\ last' = [op |-> "flip"]
  /\ UNCHANGED <<master, pc, key, connections, attempt, rnd, clock, op, sort_reverse>>

NextVault == VaultSave \/ VaultLoad \/ VaultFlip

SpecVault == InitVault /\ [][NextVault]_vars

\* ------------------------------------------------------ both stores alone
\* MasterStore.setup / unlock and ConnectionStore.save / load as a caller
\* may invoke them, over arbitrary master records, and single-bit flips of
\* master.json.
MaxStoreRandom == 6

\* A salt of two bytes: a record this program did not write.
ShortSalt == [len |-> 2, val |-> 0]

\* Master records this program never writes: a salt that is not 16 bytes
\* long, a token that decrypts to something else than the constant.
ForeignRecords ==
  {MasterRecord(ShortSalt, create_verify_token(derive_key(pw, ShortSalt), 1)) :
     pw \in Passwords}
  \cup {MasterRecord(generate_salt(0),
                     encrypt([kind |-> "notjson", bytes |-> VerifyLen],
                             derive_key(pw, generate_salt(0)), 1)) :
          pw \in Passwords}

StoreLists ==
  {<<>>,
   <<Connection("web", "h", DefaultPort, "password", "u", "", "", "", "", 0, 0, 0)>>}

\* The keys a caller can hold for the record on disk.
StoreKeys(m) ==
  IF m.st = "full" /\ IsHex(m.data.salt)
  THEN {derive_key(pw, fromhex(m.data.salt)) : pw \in Passwords}
  ELSE {}

InitStores ==
  /\ master \in {AbsentFile} \cup {FullFile(r) : r \in ForeignRecords}
  /\ blob = AbsentFile
  /\ pc = "stores"
  /\ key = NoKey
  /\ connections = <<>>
  /\ attempt = 0
  /\ rnd = 2
  /\ clock = 0
  /\ op = NoOp
  /\ last = NoCall
  /\ hist = NoHist
  /\ sort_reverse = FALSE

\* setup(P), whole.
StoreSetup ==
  /\ pc = "stores"
  /\ rnd + 2 <= MaxStoreRandom
  /\ \E pw \in Passwords :
       LET r == MasterStore_setup(master, pw, rnd, rnd + 1)
       IN /\ master' = r.file
          /\ last' = [op |-> "setup", pw |-> pw, key |-> r.key, prev |-> master,
                      prevPw |-> hist.setupPw]
          /\ hist' = [hist EXCEPT !.setupPw = pw, !.setupKey = r.key,
                                  !.rec = r.file.data, !.flipped = FALSE]
  /\ rnd' = rnd + 2
  /\ UNCHANGED <<blob, pc, key, connections, attempt, clock, op, sort_reverse>>

\* unlock(P)
StoreUnlock ==
  /\ pc = "stores"
  /\ \E pw \in Passwords :
       LET r == MasterStore_unlock(master, pw)
       IN /\ master' = r.file
          /\ last' = UnlockCall(pw, r)
  /\ UNCHANGED <<blob, pc, key, connections, attempt, rnd, clock, op, hist, sort_reverse>>

\* change_password(P, P'), whole.
StoreChangePassword ==
  /\ pc = "stores"
  /\ \E old \in Passwords, new \in Passwords :
       LET r == MasterStore_change_password(master, old, new, rnd, rnd + 1)
       IN /\ r.out = "key" => rnd + 2 <= MaxStoreRandom
          /\ master' = r.file
          /\ last' = [op |-> "change_password", pw |-> old, new |-> new,
                      out |-> r.out, key |-> r.key, prev |-> master]
          /\ hist' = IF r.out = "key"
                     THEN [hist EXCEPT !.setupPw = new, !.setupKey = r.key,
                                       !.rec = r.file.data, !.flipped = FALSE]
                     ELSE hist
          /\ rnd' = IF r.out = "key" THEN rnd + 2 ELSE rnd
  /\ UNCHANGED <<blob, pc, key, connections, attempt, clock, op, sort_reverse>>

\* One bit of master.json is flipped: in the token ("sig", "slack" as for
\* the connection store), in the salt's hex string ("digit", "case",
\* "nonhex"), or in the JSON around them ("json": a quote, a brace, a byte
\* that is no UTF-8).
StoreFlip ==
  /\ pc = "stores"
  /\ master.st = "full"
  /\ ~hist.flipped
  /\ \E pos \in {"sig", "slack", "json", "digit", "case", "nonhex"} :
       /\ pos = "slack" => SlackBits(master.data.verify_token.pt) > 0
       /\ master' = IF pos \in {"sig", "slack", "json"}
                    THEN [master EXCEPT !.flip = pos]
                    ELSE [master EXCEPT !.data.salt = FlipHex(@, pos)]
       /\ last' = [op |-> "flip", pos |-> pos]
  /\ hist' = [hist EXCEPT !.flipped = TRUE]
  /\ UNCHANGED <<blob, pc, key, connections, attempt, rnd, clock, op, sort_reverse>>

\* save(L, K), whole.
StoreSave ==
  /\ pc = "stores"
  /\ rnd + 1 <= MaxStoreRandom
  /\ \E L \in StoreLists, k \in StoreKeys(master) :
       /\ blob' = FullFile(SaveBytes(L, k, rnd))
       /\ last' = [op |-> "save", key |-> k, list |-> L, prev |-> blob]
  /\ rnd' = rnd + 1
  /\ UNCHANGED <<master, pc, key, connections, attempt, clock, op, hist, sort_reverse>>

\* load(K)
StoreLoad ==
  /\ pc = "stores"
  /\ \E k \in StoreKeys(master) :
       LET r == ConnectionStore_load(blob, k)
       IN /\ blob' = r.file
          /\ last' = [op |-> "load", key |-> k, raised |-> r.raised, list |-> r.list]
  /\ UNCHANGED <<master, pc, key, connections, attempt, rnd, clock, op, hist, sort_reverse>>

NextStores ==
  StoreSetup \/ StoreUnlock \/ StoreChangePassword \/ StoreFlip \/ StoreSave \/ StoreLoad

SpecStores == InitStores /\ [][NextStores]_vars

\* ------------------------------------------- the connection list handlers
\* _on_add, _on_edit, _on_duplicate, _on_delete and _sort_column in a session
\* that has authenticated, each with the save it ends with.
MaxListRandom == 7

\* The suffix _on_duplicate gives the name of the copy, " (コピー)", in ASCII.
CopySuffix == " (kopii)"

RECURSIVE Copies(_, _)
Copies(name, k) == IF k = 0 THEN name ELSE Copies(name, k - 1) \o CopySuffix

\* Position of a name in the str order (by code point) of the names the
\* forms and _on_duplicate make: "db-server-01" and its copies, then "web"
\* and its copies, a name before its copy.
NameRank(n) ==
  CHOOSE r \in 0..(2 * MaxListRandom + 1) :
    n = Copies(IF r <= MaxListRandom THEN "db-server-01" ELSE "web",
               r % (MaxListRandom + 1))

\* key=lambda c: getattr(c, attr, ""), as a number that orders as the value
\* does.  The forms give one host and one user name.
SortKey(c, attr) ==
  CASE attr = "port" -> c.port
    [] attr = "name" -> NameRank(c.name)
    [] attr = "auth_type" -> (IF c.auth_type = "password" THEN 0 ELSE 1)
    [] OTHER -> 0

\* col_map.get(col, col)
col_map(col) ==
  CASE col = "auth" -> "auth_type" [] col = "user" -> "username" [] OTHER -> col

RECURSIVE InsertSorted(_, _, _, _)
InsertSorted(sorted, c, attr, reverse) ==
  IF sorted = <<>> THEN <<c>>
  ELSE IF (IF reverse THEN SortKey(c, attr) > SortKey(Head(sorted), attr)
                      ELSE SortKey(c, attr) < SortKey(Head(sorted), attr))
       THEN <<c>> \o sorted
       ELSE <<Head(sorted)>> \o InsertSorted(Tail(sorted), c, attr, reverse)

\* list.sort(key=..., reverse=...): stable, also when reversed.
RECURSIVE sort(_, _, _)
sort(seq, attr, reverse) ==
  IF seq = <<>> THEN <<>>
  ELSE InsertSorted(sort(SubSeq(seq, 1, Len(seq) - 1), attr, reverse),
                    seq[Len(seq)], attr, reverse)

\* What the user can leave in the dialog when pressing Save.
Form(name, port, auth, keyPath) ==
  [name |-> name, host |-> Entry("h", FALSE), port |-> port, auth_type |-> auth,
   key_path |-> keyPath, username |-> Entry("u", TRUE), password |-> "",
   prompt |-> Entry("", FALSE), sendln_param |-> Entry("", FALSE)]

DialogForms ==
  {Form(Entry("web", TRUE), Entry(<<"2", "2">>, FALSE), "password", ""),
   Form(Entry("db-server-01", FALSE), Entry(<<"2", "2">>, TRUE), "publickey", "id_rsa"),
   Form(Entry("web", FALSE), Entry(<<"7", "0", "0", "0", "0">>, FALSE), "password", ""),
   Form(Entry("", TRUE), Entry(<<"2", "2">>, FALSE), "password", ""),
   Form(Entry("web", FALSE), Entry(<<"s", "s", "h">>, FALSE), "password", ""),
   Form(Entry("web", FALSE), Entry(<<>>, TRUE), "password", ""),
   Form(Entry("web", FALSE), Entry(<<"2", "2">>, FALSE), "publickey", "")}

ListKey == derive_key("Secret1!", generate_salt(0))

\* The session after the first start: setup has written master.json, load
\* found no connections.enc.
InitList ==
  /\ master = FullFile(MasterRecord(generate_salt(0), create_verify_token(ListKey, 1)))
  /\ blob = AbsentFile
  /\ pc = "list"
  /\ key = ListKey
  /\ connections = <<>>
  /\ attempt = 0
  /\ rnd = 2
  /\ clock = 0
  /\ op = NoOp
  /\ last = NoCall
  /\ hist = NoHist
  /\ sort_reverse = FALSE

save_connections_skipped(list, via, idx, now) ==
  /\ blob' = blob
  /\ last' = [op |-> "save", via |-> via, idx |-> idx, now |-> now]

\* self._save_connections(), whole: save(self._connections, self._key).
ListSave(list, via, idx, now) ==
  /\ blob' = FullFile(SaveBytes(list, key, rnd))
  /\ last' = [op |-> "save", via |-> via, idx |-> idx, now |-> now]

\* The dialog was closed without a result, or nothing was selected.
ListCancel ==
  /\ pc = "list"
  /\ last' = [op |-> "cancel"]
  /\ UNCHANGED <<master, blob, pc, key, connections, attempt, rnd, clock, op, hist, sort_reverse>>

\* _on_add
ListAdd ==
  /\ pc = "list"
  /\ Len(connections) < MaxProfiles
  /\ rnd + 2 <= MaxListRandom
  /\ \E form \in DialogForms, now \in clock..MaxClock :
       LET dlg == ConnectionDialog_on_save(form, FALSE, NoConn, now, rnd)
       IN /\ dlg.ok
          /\ connections' = Append(connections, dlg.result)
          /\ clock' = now
          /\ ListSave(connections', "add", Len(connections'), now)
  /\ rnd' = rnd + 2
  /\ UNCHANGED <<master, pc, key, attempt, op, hist, sort_reverse>>

\* _on_edit
ListEdit ==
  /\ pc = "list"
  /\ rnd + 1 <= MaxListRandom
  /\ \E idx \in 1..Len(connections), form \in DialogForms, now \in clock..MaxClock :
       LET dlg == ConnectionDialog_on_save(form, TRUE, connections[idx], now, rnd)
       IN /\ dlg.ok
          /\ connections' = [connections EXCEPT ![idx] = dlg.result]
          /\ clock' = now
          /\ ListSave(connections', "edit", idx, now)
  /\ rnd' = rnd + 1
  /\ UNCHANGED <<master, pc, key, attempt, op, hist, sort_reverse>>

duplicate_keeps_id(conn, new_id, now) ==
  [conn EXCEPT !.name = @ \o CopySuffix, !.created_at = now, !.updated_at = now]

duplicate_keeps_timestamps(conn, new_id, now) ==
  [conn EXCEPT !.id = new_id, !.name = @ \o CopySuffix]

\* _on_duplicate: the copy it appends.
duplicate(conn, new_id, now) ==
  [conn EXCEPT !.id = new_id, !.name = @ \o CopySuffix,
               !.created_at = now, !.updated_at = now]

\* _on_duplicate
ListDuplicate ==
  /\ pc = "list"
  /\ Len(connections) < MaxProfiles
  /\ rnd + 2 <= MaxListRandom
  /\ \E idx \in 1..Len(connections), now \in clock..MaxClock :
       /\ connections' = Append(connections, duplicate(connections[idx], rnd, now))
       /\ clock' = now
       /\ ListSave(connections', "duplicate", idx, now)
  /\ rnd' = rnd + 2
  /\ UNCHANGED <<master, pc, key, attempt, op, hist, sort_reverse>>

\* _on_delete
ListDelete ==
  /\ pc = "list"
  /\ rnd + 1 <= MaxListRandom
  /\ \E idx \in 1..Len(connections) :
       /\ connections' = RemoveAt(connections, idx)
       /\ ListSave(connections', "delete", idx, clock)
  /\ rnd' = rnd + 1
  /\ UNCHANGED <<master, pc, key, attempt, clock, op, hist, sort_reverse>>

\* _sort_column: sorts the list in memory and flips the direction for the
\* next click; it does not save.
ListSortColumn ==
  /\ pc = "list"
  /\ \E col \in {"name", "host", "port", "auth", "user"} :
       /\ connections' = sort(connections, col_map(col), sort_reverse)
       /\ last' = [op |-> "sort", col |-> col]
  /\ sort_reverse' = ~sort_reverse
  /\ UNCHANGED <<master, blob, pc, key, attempt, rnd, clock, op, hist>>

NextList ==
  ListAdd \/ ListEdit \/ ListDuplicate \/ ListDelete \/ ListSortColumn \/ ListCancel

SpecList == InitList /\ [][NextList]_vars

\* ================================================================ claims

\* C1. After a completed setup(P), every unlock(P) returns a key and every
\* unlock(P') with P' # P returns None, whatever unlock calls came between.
AuthenticationCorrect ==
  (last.op = "unlock" /\ last.setupPw # "")
    => last.out = (IF last.pw = last.setupPw THEN "key" ELSE "None")

\* A successful unlock that follows a failed one.
AuthenticationWitness ==
  /\ last.op = "unlock"
  /\ last.setupPw # ""
  /\ last.out = "key"
  /\ attempt > 0

\* C2. A step that calls unlock leaves master.json and connections.enc as
\* they were, whether unlock returns a key, returns None or raises.
UnlockWritesNothing ==
  [][(AuthUnlock \/ OnChangePassword) => (master' = master /\ blob' = blob)]_vars

\* A failed unlock with both files present.
UnlockFailedWitness ==
  /\ last.op = "unlock"
  /\ last.out = "None"
  /\ master.st = "full"
  /\ blob.st = "full"

\* C3. load(K) right after save(L, K) returns L: same length, same order,
\* every field of every record.
RoundTrip ==
  (last.op = "load" /\ hist.intact /\ last.key = hist.savedKey)
    => (~last.raised /\ last.list = hist.saved)

RoundTripWitness ==
  /\ last.op = "load"
  /\ hist.intact
  /\ last.key = hist.savedKey
  /\ Len(hist.saved) >= 2
  /\ hist.saved[1] # hist.saved[2]

\* C4. When re_encrypt(oldK, newK) has returned and the store held L under
\* oldK # newK, load(oldK) gives the empty list and load(newK) gives L.
RotationCorrect ==
  (pc = "chpw_adopt" /\ op.pre.held /\ op.new_key # op.old_key)
    => /\ ConnectionStore_load(blob, op.old_key).list = <<>>
       /\ ConnectionStore_load(blob, op.new_key).list = op.pre.list

RotationWitness ==
  /\ pc = "chpw_adopt"
  /\ op.pre.held
  /\ op.new_key # op.old_key
  /\ op.pre.list # <<>>

\* C5. While re_encrypt's save has not finished writing, load(oldKey) still
\* returns the list the store held before the rotation.
ReEncryptKeepsOldBlob ==
  (pc \in {"save_open", "save_write"} /\ op.ret = "chpw_adopt" /\ op.pre.held)
    => ConnectionStore_load(blob, op.old_key).list = op.pre.list

\* C6. Wherever a password change can stop, some password unlocks the master
\* record and its key loads the list the store held before the rotation.
\* Stated at the points where both files are whole, so that a violation
\* does not rest on a half-written file.
RotationAllOrNothing ==
  (pc \in {"setup_open", "reenc", "save_open", "chpw_adopt"}
   /\ op.caller = "chpw" /\ op.pre.held
   /\ master.st = "full" /\ blob.st = "full")
    => \E pw \in Passwords :
         LET r == MasterStore_unlock(master, pw)
         IN /\ r.out = "key"
            /\ ConnectionStore_load(blob, r.key).list = op.pre.list

\* C7. While save writes over an existing blob, connections.enc holds
\* either the previous bytes or the new bytes, whole.
SaveCrashSafe ==
  (pc \in {"save_open", "save_write"} /\ op.prev.st = "full")
    => (blob = op.prev \/ blob = FullFile(op.enc))

\* C8. master.json is absent or holds, whole, the record the last completed
\* setup wrote.
MasterNeverPartial ==
  master = AbsentFile \/ master = FullFile(hist.rec)

\* C9 as stated. load(K) of a saved blob with one bit flipped returns the
\* empty list.
TamperAlwaysEmpty ==
  (last.op = "load" /\ hist.flipped /\ last.key = hist.savedKey)
    => (~last.raised /\ last.list = <<>>)

\* C9 as amended. load(K) of a saved blob with one bit flipped never raises
\* and returns the empty list, or, when the flipped bit is one the base64
\* decoder ignores, exactly the saved list; never any other list.
TamperDetected ==
  (last.op = "load" /\ hist.flipped /\ last.key = hist.savedKey)
    => /\ ~last.raised
       /\ \/ last.list = <<>>
          \/ (blob.flip = "slack" /\ last.list = hist.saved)

TamperWitness ==
  /\ last.op = "load"
  /\ hist.flipped
  /\ last.key = hist.savedKey
  /\ blob.flip = "sig"
  /\ hist.saved # <<>>
  /\ last.list = <<>>

\* The key cannot open the file, or what it opens is no list of records.
Unreadable(b, k) ==
  \/ b.st \in {"absent", "empty", "partial"}
  \/ b.data.key # k
  \/ b.flip = "sig"
  \/ b.data.pt.kind # "json"

\* C10. load never raises because of what the file holds, returns the empty
\* list when the file is absent, zero-length, undecryptable or unparsable,
\* and leaves the file as it was.
LoadNeverFails ==
  [][VaultLoad => /\ blob' = blob
                  /\ ~last'.raised
                  /\ Unreadable(blob, last'.key) => last'.list = <<>>]_vars

\* A token the key decrypts to a document that is no list of records.
LoadUnparsableWitness ==
  /\ last.op = "load"
  /\ blob.st = "full"
  /\ blob.flip = "none"
  /\ blob.data.key = last.key
  /\ blob.data.pt.kind = "badconn"
  /\ last.list = <<>>

\* C11. unlock of a master record, intact or with a bit flipped, returns a
\* key exactly when the token decrypts under the derived key to the
\* constant, and None in every other case: wrong password, corrupted salt,
\* corrupted token, another plaintext.  Stated for records whose salt has
\* 16 bytes.
UnlockCollapsesFailures ==
  (last.op = "unlock" /\ master.st = "full"
   /\ fromhex(master.data.salt).len = SaltLen)
    => /\ last.out \in {"key", "None"}
       /\ last.out = "key"
            <=> /\ IsHex(master.data.salt)
                /\ verify_master_password(
                     master.data.verify_token, master.flip,
                     derive_key(last.pw, fromhex(master.data.salt)))

\* C19. unlock of a record whose salt is not 16 bytes long raises: derive_key
\* rejects the salt instead of deriving a key from it.
DeriveKeyRejectsShortSalt ==
  (last.op = "unlock" /\ master.st = "full" /\ master.flip # "json"
   /\ IsHex(master.data.salt) /\ fromhex(master.data.salt).len # SaltLen)
    => last.out = "raise"

\* C12. A step in which the read or write under setup, unlock, save or
\* re_encrypt fails ends the caller with the error: the code after the call
\* does not run (no load, no re_encrypt after a failed setup, no adoption
\* of the new key after a failed re_encrypt) and no key is handed over.
StorageFailurePropagates ==
  [][(SetupFail \/ AuthUnlockFail \/ ChangePasswordUnlockFail
      \/ SaveFail \/ ReEncryptLoadFail)
       => /\ last'.op = "OSError"
          /\ pc' \in {"off", "main"}
          /\ key' \in {key, NoKey}
          /\ pc' = "main" => op' = NoOp]_vars

\* re_encrypt failed in a password change: the handler ended without
\* adopting the key of the new master record.
StorageFailureWitness ==
  /\ last = StorageError("re_encrypt")
  /\ pc = "main"
  /\ master.st = "full"
  /\ master.data.verify_token.key # key

\* Every key derive_key can give for the passwords and salts of a behaviour.
CandidateKeys ==
  {derive_key(pw, salt) :
     pw \in Passwords,
     salt \in {generate_salt(n) : n \in 0..MaxStoreRandom} \cup {ShortSalt}}

\* C13. A setup over an existing record replaces it with a record under a
\* fresh salt: afterwards unlock succeeds for the password of this setup
\* and fails for every other one, and the key this setup returned is the
\* only key that verifies against the record on disk.
SetupReplacesRecord ==
  (last.op = "setup" /\ last.prev.st = "full")
    => /\ fromhex(master.data.salt) # fromhex(last.prev.data.salt)
       /\ \A pw \in Passwords :
            MasterStore_unlock(master, pw).out
              = (IF pw = last.pw THEN "key" ELSE "None")
       /\ \A k \in CandidateKeys \cup {last.prev.data.verify_token.key} :
            verify_master_password(master.data.verify_token, master.flip, k)
              <=> k = last.key

\* setup(P1), then setup(P2) with another password.
SetupReplacesWitness ==
  /\ last.op = "setup"
  /\ last.prev.st = "full"
  /\ last.prevPw # ""
  /\ last.prevPw # last.pw

\* C14. unlock(P) after a completed setup(P) returns a key, the key that
\* setup returned; so at the start of a later session load under the key
\* from unlock returns the list last saved under the key from setup.
UnlockKeyIsSetupKey ==
  /\ (last.op = "unlock" /\ last.setupPw # "" /\ last.pw = last.setupPw)
       => (last.out = "key" /\ last.key = hist.setupKey)
  /\ (pc = "load" /\ last.op = "unlock" /\ last.setupPw # ""
      /\ hist.intact /\ hist.savedKey = hist.setupKey)
       => ConnectionStore_load(blob, key).list = hist.saved

\* A later session has unlocked; the store holds a list saved under the key
\* from setup.
UnlockKeyWitness ==
  /\ pc = "load"
  /\ last.op = "unlock"
  /\ last.setupPw # ""
  /\ hist.intact
  /\ hist.savedKey = hist.setupKey
  /\ hist.saved # <<>>
  /\ key = hist.setupKey

\* C20. Two successive save(L, K) leave different bytes in connections.enc
\* and load(K) returns L from either; two successive setup calls with the
\* same password write different salts and different verify tokens.
FreshRandomness ==
  /\ (last.op = "save" /\ last.prev.st = "full"
      /\ last.prev.data.key = last.key /\ last.prev.data.pt = blob.data.pt)
       => /\ blob.data # last.prev.data
          /\ ConnectionStore_load(blob, last.key).list = last.list
          /\ ConnectionStore_load(last.prev, last.key).list = last.list
  /\ (last.op = "setup" /\ last.prev.st = "full" /\ last.prevPw = last.pw)
       => /\ fromhex(master.data.salt) # fromhex(last.prev.data.salt)
          /\ master.data.verify_token # last.prev.data.verify_token

\* The second of two saves of the same non-empty list under the same key.
FreshRandomnessWitness ==
  /\ last.op = "save"
  /\ last.prev.st = "full"
  /\ last.prev.data.key = last.key
  /\ last.prev.data.pt = blob.data.pt
  /\ last.list # <<>>

\* C15 as stated. _on_duplicate appends a copy with an id of its own, both
\* timestamps at the duplication time and every other field, the name
\* included, equal to the original's; the records before it stay as they are.
DuplicateCopiesVerbatim ==
  [][ListDuplicate =>
       LET n == Len(connections')
           orig == connections[last'.idx]
           copy == connections'[n]
       IN /\ SubSeq(connections', 1, n - 1) = connections
          /\ \A i \in 1..(n - 1) : connections'[i].id # copy.id
          /\ copy.created_at = last'.now /\ copy.updated_at = last'.now
          /\ \A f \in FieldNames \ {"id", "created_at", "updated_at"} :
               copy[f] = orig[f]]_vars

\* C15 as amended. The same, but the copy's name is the original's name
\* followed by " (コピー)".
DuplicateCopies ==
  [][ListDuplicate =>
       LET n == Len(connections')
           orig == connections[last'.idx]
           copy == connections'[n]
       IN /\ SubSeq(connections', 1, n - 1) = connections
          /\ \A i \in 1..(n - 1) : connections'[i].id # copy.id
          /\ copy.created_at = last'.now /\ copy.updated_at = last'.now
          /\ copy.name = orig.name \o CopySuffix
          /\ \A f \in FieldNames \ {"id", "name", "created_at", "updated_at"} :
               copy[f] = orig[f]]_vars

\* A record was duplicated later than it was created.
DuplicateWitness ==
  /\ last.op = "save"
  /\ last.via = "duplicate"
  /\ connections[Len(connections)].name = connections[last.idx].name \o CopySuffix
  /\ connections[Len(connections)].created_at > connections[last.idx].created_at

\* C16. _on_edit puts the dialog's result where the edited record was: same
\* id and created_at, updated_at the time of the edit, every other record
\* and the length of the list as before.
EditKeepsIdentity ==
  [][ListEdit =>
       LET i == last'.idx
       IN /\ Len(connections') = Len(connections)
          /\ connections'[i].id = connections[i].id
          /\ connections'[i].created_at = connections[i].created_at
          /\ connections'[i].updated_at = last'.now
          /\ \A j \in 1..Len(connections) : j # i => connections'[j] = connections[j]]_vars

\* The first of two records was edited after it was created, and renamed.
EditWitness ==
  /\ last.op = "save"
  /\ last.via = "edit"
  /\ Len(connections) = 2
  /\ last.idx = 1
  /\ connections[1].updated_at > connections[1].created_at
  /\ connections[1].name = "db-server-01"
  /\ connections[2].name = "web"

Identities(list) ==
  {[id |-> list[i].id, created_at |-> list[i].created_at] : i \in DOMAIN list}

DistinctIds(list) == \A i, j \in DOMAIN list : i # j => list[i].id # list[j].id

\* C17. After every add, edit, duplicate, delete and sort the ids of the list
\* in memory are pairwise distinct, so are those of the list a save wrote,
\* and every record that stays in the list keeps its id and created_at.
IdsUniqueAndImmutable ==
  [][/\ DistinctIds(connections')
     /\ last'.op = "save"
          => (blob'.st = "full" /\ DistinctIds(blob'.data.pt.connections))
     /\ IF Len(connections') < Len(connections)
        THEN Identities(connections') \subseteq Identities(connections)
        ELSE Identities(connections) \subseteq Identities(connections')]_vars

\* A sort has put a later record before an earlier one.
IdsWitness ==
  /\ last.op = "sort"
  /\ Len(connections) = 2
  /\ connections[1].id > connections[2].id
  /\ connections[2].updated_at > connections[2].created_at

\* C18. Every record that _on_add or _on_edit hands to save has a name, a
\* port in 1..65535 and, for publickey, a key file.
SavedProfilesValid ==
  (last.op = "save" /\ last.via \in {"add", "edit"})
    => LET c == blob.data.pt.connections[last.idx]
       IN /\ c.name # ""
          /\ c.port \in 1..65535
          /\ c.auth_type = "publickey" => c.key_path # ""

WrongPasswordChangesNothing ==
  [][(pc = "main" /\ last'.op = "unlock" /\ last'.out = "None")
       => /\ UNCHANGED <<master, blob, key, connections, pc, op, rnd, hist>>
          /\ \A new \in Passwords :
               LET r == MasterStore_change_password(master, last'.pw, new, rnd, rnd + 1)
               IN r.out = "None" /\ r.file = master]_vars

\* The handler ended on a wrong current password in a session that holds a
\* saved list.
WrongPasswordWitness ==
  /\ last.op = "unlock"
  /\ last.out = "None"
  /\ pc = "main"
  /\ key # NoKey
  /\ connections # <<>>
  /\ blob.st = "full"

\* C23. Between two handlers of the authenticated application the key in
\* memory verifies against the token of master.json and is the key
\* connections.enc is encrypted under, also after a password change in which
\* re_encrypt raised.  Stated at the points where both files are whole, so
\* that a violation does not rest on a half-written file.
KeyConsistent ==
  (pc = "main" /\ master.st = "full" /\ blob.st \in {"absent", "full"})
    => /\ verify_master_password(master.data.verify_token, master.flip, key)
       /\ blob.st = "full" => blob.data.key = key

\* The elements of a list, whatever their order.
Records(list) == {list[i] : i \in DOMAIN list}

AuthenticationGate ==
  [][/\ pc' = "load"
          => \/ pc = "setup_write" /\ op.caller = "auth" /\ key' = op.new_key
             \/ pc = "auth" /\ last'.op = "unlock" /\ last'.out = "key"
                /\ key' = last'.key
     /\ pc' = "main" => key' # NoKey
     /\ pc \in {"off", "auth"} => pc' \in {"off", "auth", "load", "setup_open"}
     /\ (pc = "auth" /\ pc' = "setup_open") => ~MasterStore_exists(master)
     /\ (pc = "auth" /\ last'.op = "unlock")
          => /\ attempt < MaxAttempts
             /\ last'.out = "None"
                  => IF attempt + 1 < MaxAttempts
                     THEN pc' = "auth" /\ attempt' = attempt + 1
                     ELSE pc' = "off"
     /\ (pc = "auth" /\ pc' = "off")
          => /\ key' = NoKey
             /\ UNCHANGED <<master, blob, rnd, hist>>]_vars

\* The third wrong password of a session: the application has ended, the
\* vault of the earlier session is on disk.
AuthenticationGateWitness ==
  /\ pc = "off"
  /\ last.op = "unlock"
  /\ last.out = "None"
  /\ blob.st = "full"
  /\ hist.saved # <<>>

====
